---- MODULE Spec2Model ----
(***************************************************************************)
(* Model of src/app.py: the gas condensate dew point comparison script.    *)
(*                                                                         *)
(* The script is one straight-line pipeline that Streamlit runs from the   *)
(* top on every upload and on every widget change: read the sheet, pick    *)
(* the three columns, derive 'Gamma', evaluate the four correlations into  *)
(* four new columns and aggregate the error metrics.                       *)
(*                                                                         *)
(* Numbers.  The script computes in IEEE double precision through numpy,   *)
(* whose element-wise operations never raise: an undefined operation       *)
(* yields nan or +/-inf.  A number is modelled as a record                 *)
(*     [k |-> "fin", v |-> n]   the real n / Scale (fixed point)           *)
(*     [k |-> "inf", v |-> s]   s = 1: +inf,  s = -1: -inf                 *)
(*     [k |-> "nan", v |-> 0]                                              *)
(* and every operation follows the IEEE rules for the special values.      *)
(***************************************************************************)
EXTENDS Integers, Sequences, FiniteSets

\* Fixed-point resolution: a finite number n stands for n / Scale.
Scale == 1000

\* Largest number of data rows of an uploaded sheet.
MaxRows == 2

\* Number of terms kept in the series of FixLn and FixExp.
SeriesTerms == 6

-----------------------------------------------------------------------------
(* Fixed-point helpers (truncation toward zero, as IEEE is sign-symmetric) *)

Sgn(n) == IF n > 0 THEN 1 ELSE IF n < 0 THEN -1 ELSE 0

Mag(n) == IF n < 0 THEN -n ELSE n

\* (a * b) / Scale without forming the full product.
FixMul(a, b) ==
  LET x == IF Mag(a) <= Mag(b) THEN Mag(a) ELSE Mag(b)
      y == IF Mag(a) <= Mag(b) THEN Mag(b) ELSE Mag(a)
  IN  Sgn(a) * Sgn(b) * (x * (y \div Scale) + (x * (y % Scale)) \div Scale)

\* (a * Scale) / b without forming the full product; b # 0.
FixDiv(a, b) ==
  LET x == Mag(a)
      y == Mag(b)
  IN  Sgn(a) * Sgn(b) * ((x \div y) * Scale + ((x % y) * Scale) \div y)

\* ln 2 and ln 10 in fixed point.
Ln2 == 693
Ln10 == 2303

\* Argument above which exp overflows a double (709.78...).
ExpOverflow == 709782

RECURSIVE LnSeries(_, _, _, _)
\* sum of z^(2j+1)/(2j+1) for the remaining terms; t = z^(2j+1), j-th term.
LnSeries(t, z2, j, left) ==
  IF left = 0 THEN 0
  ELSE t \div (2 * j + 1) + LnSeries(FixMul(t, z2), z2, j + 1, left - 1)

RECURSIVE FixLn(_)
\* ln of the positive fixed-point number n (n >= 1).
FixLn(n) ==
  IF n >= 2 * Scale THEN Ln2 + FixLn(n \div 2)
  ELSE IF n < Scale THEN FixLn(2 * n) - Ln2
  ELSE LET z == FixDiv(n - Scale, n + Scale)
       IN  2 * LnSeries(z, FixMul(z, z), 0, SeriesTerms)

RECURSIVE ExpSeries(_, _, _, _)
\* sum of r^j/j! for the remaining terms; t = r^j/j!.
ExpSeries(t, r, j, left) ==
  IF left = 0 THEN 0
  ELSE t + ExpSeries(FixMul(t, r) \div (j + 1), r, j + 1, left - 1)

RECURSIVE FixExp(_)
\* exp of the fixed-point number n (n <= ExpOverflow).
FixExp(n) ==
  IF n >= Ln2 THEN 2 * FixExp(n - Ln2)
  ELSE IF n < 0 THEN FixExp(n + Ln2) \div 2
  ELSE ExpSeries(Scale, n, 0, SeriesTerms + 1)

-----------------------------------------------------------------------------
(* IEEE double arithmetic as numpy applies it element by element            *)

Fin(n) == [k |-> "fin", v |-> n]
Inf(s) == [k |-> "inf", v |-> s]
NaN == [k |-> "nan", v |-> 0]

IsFin(x) == x.k = "fin"
IsInf(x) == x.k = "inf"
IsNaN(x) == x.k = "nan"

\* Sign of a non-nan number; the zero of the model is +0.
SignOf(x) == IF IsInf(x) THEN x.v ELSE Sgn(x.v)

FNeg(x) == IF IsNaN(x) THEN NaN ELSE [k |-> x.k, v |-> -x.v]

FAbs(x) == IF IsNaN(x) THEN NaN ELSE [k |-> x.k, v |-> Mag(x.v)]

FAdd(x, y) ==
  IF IsNaN(x) \/ IsNaN(y) THEN NaN
  ELSE IF IsInf(x) /\ IsInf(y) THEN (IF x.v = y.v THEN x ELSE NaN)
  ELSE IF IsInf(x) THEN x
  ELSE IF IsInf(y) THEN y
  ELSE Fin(x.v + y.v)

FSub(x, y) == FAdd(x, FNeg(y))

FMul(x, y) ==
  IF IsNaN(x) \/ IsNaN(y) THEN NaN
  ELSE IF IsInf(x) \/ IsInf(y)
       THEN (IF SignOf(x) = 0 \/ SignOf(y) = 0 THEN NaN
             ELSE Inf(SignOf(x) * SignOf(y)))
  ELSE Fin(FixMul(x.v, y.v))

FDiv(x, y) ==
  IF IsNaN(x) \/ IsNaN(y) THEN NaN
  ELSE IF IsInf(x) THEN (IF IsInf(y) THEN NaN
                         ELSE Inf(x.v * (IF y.v < 0 THEN -1 ELSE 1)))
  ELSE IF IsInf(y) THEN Fin(0)
  ELSE IF y.v = 0 THEN (IF x.v = 0 THEN NaN ELSE Inf(Sgn(x.v)))
  ELSE Fin(FixDiv(x.v, y.v))

\* np.log: nan below zero, -inf at zero.
FLog(x) ==
  IF IsNaN(x) THEN NaN
  ELSE IF IsInf(x) THEN (IF x.v > 0 THEN x ELSE NaN)
  ELSE IF x.v < 0 THEN NaN
  ELSE IF x.v = 0 THEN Inf(-1)
  ELSE Fin(FixLn(x.v))

\* np.log10
FLog10(x) == FDiv(FLog(x), Fin(Ln10))

\* np.exp: overflows to +inf.
FExp(x) ==
  IF IsNaN(x) THEN NaN
  ELSE IF IsInf(x) THEN (IF x.v > 0 THEN x ELSE Fin(0))
  ELSE IF x.v > ExpOverflow THEN Inf(1)
  ELSE Fin(FixExp(x.v))

\* x ** e for a finite, non-integer exponent e (fixed point, e # 0).
FPow(x, e) ==
  IF IsNaN(x) THEN NaN
  ELSE IF IsInf(x) THEN (IF e > 0 THEN Inf(1) ELSE Fin(0))
  ELSE IF x.v < 0 THEN NaN
  ELSE IF x.v = 0 THEN (IF e > 0 THEN Fin(0) ELSE Inf(1))
  ELSE FExp(FMul(Fin(e), FLog(x)))

\* x ** 2
FSquare(x) == FMul(x, x)

-----------------------------------------------------------------------------
(* Frames: a DataFrame is a function from column labels to series          *)

RangeOf(s) == {s[i] : i \in 1..Len(s)}

\* Zero-based position of a label in an Index (Index.get_loc), as a 1-based one.
GetLoc(columns, name) == CHOOSE i \in 1..Len(columns) : columns[i] = name

\* DataFrame.__setitem__ with a column label: replaces the column when the
\* label exists, appends it otherwise.
SetColumn(df, name, series) ==
  [c \in (DOMAIN df) \cup {name} |-> IF c = name THEN series ELSE df[c]]

-----------------------------------------------------------------------------
(* Inputs: the sheets a user may upload                                     *)

\* Names of the four method columns, in the order the script computes them.
Methods == <<"T_Safamirzaei", "T_Motiee", "T_Towler", "T_Ghayyem">>

\* Header rows of the uploaded sheets: the documented layout, a layout
\* whose names collide with derived columns, a sheet without experimental
\* data, and an empty sheet.
Headers ==
  { <<"Pressure", "Molecular_Weight", "Experimental_Temperature">>,
    <<"P", "Gamma", "T_Motiee">>,
    <<"Pressure", "Molecular_Weight">>,
    <<>> }

\* Data rows (first, second, third cell), in fixed point: an ordinary
\* sample, pressure 0, pressure < 0, pressure below 1 kPa, molecular
\* weight 0, molecular weight and temperature < 0, temperature 0.
RowSamples ==
  << <<1000000, 20000, 300000>>,
     <<0, 28970, 250000>>,
     <<-100000, 20000, 270000>>,
     <<500, 20000, 30000>>,
     <<500000, 0, 260000>>,
     <<200000, -20000, -250000>>,
     <<1000000, 20000, 0>> >>

\* Sheets of 1..MaxRows data rows; no step of the script depends on the
\* order of the rows, so they are listed in the order of RowSamples.
RowSeqs ==
  LET picks == UNION {[1..n -> 1..Len(RowSamples)] : n \in 1..MaxRows}
      sorted(s) == \A i \in 1..(Len(s) - 1) : s[i] <= s[i + 1]
  IN  {[i \in 1..Len(s) |-> RowSamples[s[i]]] : s \in {t \in picks : sorted(t)}}

\* pd.read_excel: the first sheet as a frame, one series per header cell.
ReadExcel(header, rows) ==
  [columns |-> header,
   val |-> [c \in RangeOf(header) |->
              [i \in 1..Len(rows) |-> Fin(rows[i][GetLoc(header, c)])]]]

EmptyFrame == ReadExcel(<<>>, <<>>)

-----------------------------------------------------------------------------
(* Widgets                                                                  *)

\* Default A, B, C of the Safamirzaei equation (st.sidebar.number_input).
A == 194682
B == 44
C == 190

\* The value a selectbox yields when it has no options.
None == "None"

\* index= argument of the three selectboxes: position of the documented
\* name when the frame has it, the first column otherwise.
DefaultIndex(columns, name) ==
  IF name \in RangeOf(columns) THEN GetLoc(columns, name) ELSE 1

\* st.selectbox: the user's choice once made, the option at index before,
\* None for an empty option list.
Selectbox(columns, index, touched, choice) ==
  IF Len(columns) = 0 THEN None
  ELSE IF touched THEN choice
  ELSE columns[index]

-----------------------------------------------------------------------------
(* Normalisation and the four correlations, one row at a time              *)

\* Mutant: the selected column is taken as gas gravity already.
GasGravityAsGiven(mw) == mw

\* edited_data[gamma_col] / 28.97
GasGravity(mw) == FDiv(mw, Fin(28970))

\* The 'Gamma' column: the division applied to every row.
GammaSeries(col) == [i \in 1..Len(col) |-> GasGravity(col[i])]

\* P_kPa / 6.89476
ToPsi(p_kpa) == FDiv(p_kpa, Fin(6895))

PsiSeries(col) == [i \in 1..Len(col) |-> ToPsi(col[i])]

\* T_C + 273.15
CtoK(t_c) == FAdd(t_c, Fin(273150))

\* (T_F - 32) * 5 / 9 + 273.15
FtoK(t_f) ==
  FAdd(FDiv(FMul(FSub(t_f, Fin(32000)), Fin(5000)), Fin(9000)), Fin(273150))

\* A * (gamma ** B) * (np.log(P_kPa) ** C)
Safamirzaei(p_kpa, g) ==
  FMul(FMul(Fin(A), FPow(g, B)), FPow(FLog(p_kpa), C))

\* -283.24469 + 78.99667 log10 P - 5.352544 (log10 P)**2 + 349.473877 g
\*   - 150.854675 g**2 - 27.604065 g log10 P, summed left to right.
MotieeC(p_psi, g) ==
  LET L  == FLog10(p_psi)
      s1 == FAdd(Fin(-283245), FMul(Fin(78997), L))
      s2 == FSub(s1, FMul(Fin(5353), FSquare(L)))
      s3 == FAdd(s2, FMul(Fin(349474), g))
      s4 == FSub(s3, FMul(Fin(150855), FSquare(g)))
  IN  FSub(s4, FMul(FMul(Fin(27604), g), L))

\* 13.47 ln P + 34.27 ln g - 1.675 (ln P * ln g) - 20.35
TowlerF(p_psi, g) ==
  LET lnP == FLog(p_psi)
      lnG == FLog(g)
      s1  == FAdd(FMul(Fin(13470), lnP), FMul(Fin(34270), lnG))
      s2  == FSub(s1, FMul(Fin(1675), FMul(lnP, lnG)))
  IN  FSub(s2, Fin(20350))

\* -26.115 - 23.728/g + 23.942 lnP - 0.738 exp(g**-2.3) - 1.135 lnP**2
\*   + 0.443 lnP exp(g**-1.7), summed left to right.
GhayyemF(p_psi, g) ==
  LET lnP == FLog(p_psi)
      s1  == FSub(Fin(-26115), FDiv(Fin(23728), g))
      s2  == FAdd(s1, FMul(Fin(23942), lnP))
      s3  == FSub(s2, FMul(Fin(738), FExp(FPow(g, -2300))))
      s4  == FSub(s3, FMul(Fin(1135), FSquare(lnP)))
  IN  FAdd(s4, FMul(FMul(Fin(443), lnP), FExp(FPow(g, -1700))))

\* The values the four assignments store for one row.
T_Safamirzaei(p_kpa, p_psi, g) == Safamirzaei(p_kpa, g)

\* Mutant: Motiee's formula fed the kPa pressure.
T_MotieeOnKPa(p_kpa, p_psi, g) == CtoK(MotieeC(p_kpa, g))

T_Motiee(p_kpa, p_psi, g) == CtoK(MotieeC(p_psi, g))

\* Mutant: a row is given up once an earlier method failed on it.
T_TowlerUnlessEarlierFailed(p_kpa, p_psi, g) ==
  IF IsFin(Safamirzaei(p_kpa, g)) THEN FtoK(TowlerF(p_psi, g)) ELSE NaN

T_Towler(p_kpa, p_psi, g) == FtoK(TowlerF(p_psi, g))
T_Ghayyem(p_kpa, p_psi, g) == FtoK(GhayyemF(p_psi, g))

-----------------------------------------------------------------------------
(* Error metrics.  np.mean / np.max / np.min of a pandas Series dispatch to *)
(* Series.mean / max / min, which leave nan entries out (skipna) and yield  *)
(* nan when nothing is left.                                                *)

SkipNa(s) == SelectSeq(s, LAMBDA x : ~IsNaN(x))

\* x <= y on non-nan numbers.
FLe(x, y) ==
  IF IsInf(x) THEN (x.v < 0 \/ (IsInf(y) /\ y.v > 0))
  ELSE IF IsInf(y) THEN y.v > 0
  ELSE x.v <= y.v

RECURSIVE SumSeries(_)
SumSeries(s) == IF Len(s) = 0 THEN Fin(0) ELSE FAdd(s[1], SumSeries(Tail(s)))

SeriesMean(s) ==
  LET t == SkipNa(s)
  IN  IF Len(t) = 0 THEN NaN ELSE FDiv(SumSeries(t), Fin(Len(t) * Scale))

SeriesMax(s) ==
  LET t == SkipNa(s)
  IN  IF Len(t) = 0 THEN NaN
      ELSE CHOOSE x \in RangeOf(t) : \A y \in RangeOf(t) : FLe(y, x)

SeriesMin(s) ==
  LET t == SkipNa(s)
  IN  IF Len(t) = 0 THEN NaN
      ELSE CHOOSE x \in RangeOf(t) : \A y \in RangeOf(t) : FLe(x, y)

\* Mutant: only the numerator's absolute value is taken.
RelDevSignedDivisor(e, p) == FDiv(FAbs(FSub(e, p)), e)

\* np.abs((exp_T - pred) / exp_T), element-wise
AbsRelDev(e, p) == FAbs(FDiv(FSub(e, p), e))

Percent(x) == FMul(x, Fin(100 * Scale))

AbsRelDevSeries(exp, pred) ==
  [i \in 1..Len(exp) |-> AbsRelDev(exp[i], pred[i])]

\* rel_error = np.mean(np.abs((exp_T - pred) / exp_T)) * 100
RelError(exp, pred) == Percent(SeriesMean(AbsRelDevSeries(exp, pred)))

\* mape = np.max(np.abs((exp_T - pred) / exp_T)) * 100
Mape(exp, pred) == Percent(SeriesMax(AbsRelDevSeries(exp, pred)))

\* mipe = np.min(np.abs((exp_T - pred) / exp_T)) * 100
Mipe(exp, pred) == Percent(SeriesMin(AbsRelDevSeries(exp, pred)))

\* Mutant: the average of the signed relative deviations.
ArdSigned(exp, pred) ==
  Percent(SeriesMean([i \in 1..Len(exp) |-> FDiv(FSub(exp[i], pred[i]), exp[i])]))

\* ard = np.mean(np.abs((exp_T - pred) / exp_T)) * 100
Ard(exp, pred) ==
  Percent(SeriesMean([i \in 1..Len(exp) |->
                        FAbs(FDiv(FSub(exp[i], pred[i]), exp[i]))]))

\* return mape, mipe, ard, rel_error -- as a row of error_df
calc_errors(exp, pred) ==
  [MAPE |-> Mape(exp, pred), MIPE |-> Mipe(exp, pred),
   ARD |-> Ard(exp, pred), RelativeError |-> RelError(exp, pred)]

-----------------------------------------------------------------------------
(* The script as a state machine                                           *)

VARIABLES
  pc,               \* the statement the current run is at
  data,             \* pd.read_excel(uploaded_file)
  widgets,          \* what the user chose in the three selectboxes
  edited_data,      \* the frame the run enriches (label -> series)
  pressure_col, gamma_col, experimental_col,
  gamma, P_kPa, P_psi, exp_T,
  errors,           \* rows of error_df, in the order of Methods
  raised            \* the exception that ended the run, if any

vars == <<pc, data, widgets, edited_data, pressure_col, gamma_col,
          experimental_col, gamma, P_kPa, P_psi, exp_T, errors, raised>>

locals == <<pressure_col, gamma_col, experimental_col, gamma, P_kPa, P_psi,
            exp_T, errors, raised>>

NoException == [kind |-> "none", key |-> ""]

KeyError(key) == [kind |-> "KeyError", key |-> key]

Untouched == [touched |-> FALSE, pressure |-> None, gamma |-> None,
              experimental |-> None]

Init ==
  /\ pc = "upload"
  /\ data = EmptyFrame
  /\ widgets = Untouched
  /\ edited_data = EmptyFrame.val
  /\ pressure_col = None /\ gamma_col = None /\ experimental_col = None
  /\ gamma = <<>> /\ P_kPa = <<>> /\ P_psi = <<>> /\ exp_T = <<>>
  /\ errors = <<>>
  /\ raised = NoException

\* Start of a run: the locals of the script do not exist yet.
FreshLocals ==
  /\ pressure_col' = None /\ gamma_col' = None /\ experimental_col' = None
  /\ gamma' = <<>> /\ P_kPa' = <<>> /\ P_psi' = <<>> /\ exp_T' = <<>>
  /\ errors' = <<>>
  /\ raised' = NoException

\* Lines 11, 67-69: a file is uploaded, read, and shown in the editor.
Upload(header, rows) ==
  /\ pc = "upload"
  /\ data' = ReadExcel(header, rows)
  /\ edited_data' = data'.val
  /\ widgets' = Untouched
  /\ FreshLocals
  /\ pc' = "select"

\* The user changes the selectboxes after a run; Streamlit runs the script
\* again from the top on the same file (lines 67-69).
UserSelect(p, g, e) ==
  /\ pc = "done"
  /\ {p, g, e} \subseteq RangeOf(data.columns)
  /\ widgets' = [touched |-> TRUE, pressure |-> p, gamma |-> g,
                 experimental |-> e]
  /\ edited_data' = data.val
  /\ FreshLocals
  /\ pc' = "select"
  /\ UNCHANGED data

\* Lines 77-79: the three selectboxes over edited_data.columns.
SelectColumns ==
  /\ pc = "select"
  /\ pressure_col' =
       Selectbox(data.columns, DefaultIndex(data.columns, "Pressure"),
                 widgets.touched, widgets.pressure)
  /\ gamma_col' =
       Selectbox(data.columns, DefaultIndex(data.columns, "Molecular_Weight"),
                 widgets.touched, widgets.gamma)
  /\ experimental_col' =
       Selectbox(data.columns,
                 DefaultIndex(data.columns, "Experimental_Temperature"),
                 widgets.touched, widgets.experimental)
  /\ pc' = "normalize"
  /\ UNCHANGED <<data, widgets, edited_data, gamma, P_kPa, P_psi, exp_T,
                 errors, raised>>

\* The run ends with an exception; nothing after the raising statement runs.
Raise(exc) ==
  /\ raised' = exc
  /\ pc' = "done"

\* DataFrame.__getitem__ with a label raises KeyError for an unknown label.
HasColumn(df, label) == label \in DOMAIN df

\* Mutant: a missing label yields an empty column (DataFrame.get) instead
\* of an exception.
NormalizeLenient ==
  /\ pc = "normalize"
  /\ LET col(df, label) == IF HasColumn(df, label) THEN df[label] ELSE <<>>
         g  == GammaSeries(col(edited_data, gamma_col))
         df == SetColumn(edited_data, "Gamma", g)
     IN  /\ edited_data' = df
         /\ gamma' = g
         /\ P_kPa' = col(df, pressure_col)
         /\ P_psi' = PsiSeries(col(df, pressure_col))
         /\ pc' = "T_Safamirzaei"
  /\ UNCHANGED <<data, widgets, pressure_col, gamma_col, experimental_col,
                 exp_T, errors, raised>>

\* Lines 82-85: Gamma, gamma, P_kPa, P_psi.
Normalize ==
  /\ pc = "normalize"
  /\ IF ~HasColumn(edited_data, gamma_col)
       THEN /\ Raise(KeyError(gamma_col))
            /\ UNCHANGED <<edited_data, gamma, P_kPa, P_psi>>
     ELSE LET g  == GammaSeries(edited_data[gamma_col])
              df == SetColumn(edited_data, "Gamma", g)
          IN  IF ~HasColumn(df, pressure_col)
                THEN /\ Raise(KeyError(pressure_col))
                     /\ edited_data' = df
                     /\ gamma' = g
                     /\ UNCHANGED <<P_kPa, P_psi>>
              ELSE /\ edited_data' = df
                   /\ gamma' = g
                   /\ P_kPa' = df[pressure_col]
                   /\ P_psi' = PsiSeries(df[pressure_col])
                   /\ pc' = "T_Safamirzaei"
                   /\ UNCHANGED raised
  /\ UNCHANGED <<data, widgets, pressure_col, gamma_col, experimental_col,
                 exp_T, errors>>

\* An assignment edited_data[name] = series of lines 88-95.
Equation(name, series, next) ==
  /\ pc = name
  /\ edited_data' = SetColumn(edited_data, name, series)
  /\ pc' = next
  /\ UNCHANGED <<data, widgets, locals>>

\* Line 88.
EqSafamirzaei ==
  Equation("T_Safamirzaei",
           [i \in 1..Len(gamma) |-> T_Safamirzaei(P_kPa[i], P_psi[i], gamma[i])],
           "T_Motiee")

\* Lines 89-90.
EqMotiee ==
  Equation("T_Motiee",
           [i \in 1..Len(gamma) |-> T_Motiee(P_kPa[i], P_psi[i], gamma[i])],
           "T_Towler")

\* Lines 91-92.
EqTowler ==
  Equation("T_Towler",
           [i \in 1..Len(gamma) |-> T_Towler(P_kPa[i], P_psi[i], gamma[i])],
           "T_Ghayyem")

\* Lines 93-95.
EqGhayyem ==
  Equation("T_Ghayyem",
           [i \in 1..Len(gamma) |-> T_Ghayyem(P_kPa[i], P_psi[i], gamma[i])],
           "errors")

\* Lines 97-108: exp_T and the error table.
ErrorMetrics ==
  /\ pc = "errors"
  /\ IF ~HasColumn(edited_data, experimental_col)
       THEN /\ Raise(KeyError(experimental_col))
            /\ UNCHANGED <<exp_T, errors>>
     ELSE /\ exp_T' = edited_data[experimental_col]
          /\ errors' = [j \in 1..Len(Methods) |->
                          calc_errors(edited_data[experimental_col],
                                      edited_data[Methods[j]])]
          /\ pc' = "done"
          /\ UNCHANGED raised
  /\ UNCHANGED <<data, widgets, edited_data, pressure_col, gamma_col,
                 experimental_col, gamma, P_kPa, P_psi>>

\* The sheets a user may upload: an empty sheet has no rows.
Sheets ==
  {<<h, r>> : h \in Headers \ {<<>>}, r \in RowSeqs} \cup {<< <<>>, <<>> >>}

Next ==
  \/ \E s \in Sheets : Upload(s[1], s[2])
  \/ \E p, g, e \in RangeOf(data.columns) : UserSelect(p, g, e)
  \/ SelectColumns
  \/ Normalize
  \/ EqSafamirzaei
  \/ EqMotiee
  \/ EqTowler
  \/ EqGhayyem
  \/ ErrorMetrics

Spec == Init /\ [][Next]_vars

-----------------------------------------------------------------------------
(* Properties                                                              *)

Rows == 1..Len(gamma)

\* The run has evaluated all four equations.
EquationsDone == pc \in {"errors", "done"} /\ raised.kind = "none"

\* The run has produced the error table.
SummaryDone == pc = "done" /\ errors # <<>>

IsZero(x) == IsFin(x) /\ x.v = 0

Positive(x) == IsFin(x) /\ x.v > 0

\* C1: a run whose experimental temperature column holds a 0 fails with
\* DivisionByZeroError and produces no error summary for any method.
C1_ZeroExperimentalFails ==
  (pc = "done" /\ \E i \in 1..Len(exp_T) : IsZero(exp_T[i]))
    => (raised.kind = "DivisionByZeroError" /\ errors = <<>>)

\* C2: for every row and method, pressure <= 0 or gas gravity <= 0 fails
\* with DomainError and stores no value for the row; pressure > 0 and gas
\* gravity > 0 stores a finite value.
C2_DomainErrorOrFinite ==
  (pc = "done" /\ Len(gamma) > 0) =>
    \A i \in Rows : \A j \in 1..Len(Methods) :
      IF Positive(P_kPa[i]) /\ Positive(gamma[i])
        THEN /\ Methods[j] \in DOMAIN edited_data
             /\ IsFin(edited_data[Methods[j]][i])
      ELSE /\ raised.kind = "DomainError"
           /\ (Methods[j] \in DOMAIN edited_data
                 => i \notin DOMAIN edited_data[Methods[j]])

\* The selected pressure or gravity column is not a column of the sheet.
SelectedColumnAbsent ==
  \/ pressure_col \notin RangeOf(data.columns)
  \/ gamma_col \notin RangeOf(data.columns)

\* Normalisation (lines 82-85) has acted in the current run.
Normalized == pc \notin {"upload", "select", "normalize"}

MolecularWeightAliases == {"Molecular_Weight"}

NoExperimentalSupplied ==
  /\ ~widgets.touched
  /\ "Experimental_Temperature" \notin RangeOf(data.columns)

\* C5: a run on a sheet with pressure and gravity columns but no
\* experimental column completes without an error and has no error summary;
\* an error summary exists only when an experimental column was supplied.
C5_NoExperimentalNoSummary ==
  (pc = "done" /\ Len(data.columns) > 0 /\ NoExperimentalSupplied)
    => (raised.kind = "none" /\ errors = <<>>)

\* The inputs of a row lie in the domain of the method's formula.
Defined(method, i) ==
  CASE method = "T_Safamirzaei" ->
         Positive(gamma[i]) /\ IsFin(P_kPa[i]) /\ P_kPa[i].v >= Scale
    [] method = "T_Motiee" -> Positive(P_psi[i])
    [] method = "T_Towler" -> Positive(P_psi[i]) /\ Positive(gamma[i])
    [] method = "T_Ghayyem" ->
         /\ Positive(P_psi[i]) /\ Positive(gamma[i])
         /\ FPow(gamma[i], -2300).v <= ExpOverflow

\* C6: every method stores a finite value for every row whose inputs lie in
\* that method's own domain, whatever the other methods yield for the row.
C6_MethodsIndependent ==
  EquationsDone =>
    \A i \in Rows : \A j \in 1..Len(Methods) :
      /\ Len(edited_data[Methods[j]]) = Len(gamma)
      /\ Defined(Methods[j], i) => IsFin(edited_data[Methods[j]][i])

\* Some row has a method that is undefined on it, and another method that
\* stored a finite value for it.
C6_Witness ==
  /\ EquationsDone
  /\ \E i \in Rows : \E j, k \in 1..Len(Methods) :
       /\ ~IsFin(edited_data[Methods[j]][i])
       /\ j < k
       /\ Defined(Methods[k], i)
       /\ IsFin(edited_data[Methods[k]][i])

\* C7: in every record of an error summary the ARD and the mean relative
\* error are the same number.
C7_ArdIsRelativeError ==
  SummaryDone =>
    \A j \in 1..Len(Methods) : errors[j].ARD = errors[j].RelativeError

C7_Witness ==
  /\ SummaryDone
  /\ \E j \in 1..Len(Methods) :
       /\ Positive(errors[j].ARD)
       /\ errors[j].MAPE # errors[j].MIPE

\* exp_T and a method column, as calc_errors reads them.
Pred(j) == edited_data[Methods[j]]

\* The four metrics aggregated from the per-row relative errors dev.
Aggregated(dev) ==
  [MAPE |-> Percent(SeriesMax(dev)), MIPE |-> Percent(SeriesMin(dev)),
   ARD |-> Percent(SeriesMean(dev)),
   RelativeError |-> Percent(SeriesMean(dev))]

\* |T_exp - T_est| / T_exp
SignedDivisor(e, p) == FDiv(FAbs(FSub(e, p)), e)

\* |T_exp - T_est| / |T_exp|
AbsDivisor(e, p) == FDiv(FAbs(FSub(e, p)), FAbs(e))

\* C8 as stated: with every T_exp # 0, the metrics aggregate
\* |T_exp - T_est| / T_exp, the divisor being T_exp itself.
C8_DivisorIsSigned ==
  (SummaryDone /\ \A i \in 1..Len(exp_T) : ~IsZero(exp_T[i])) =>
    \A j \in 1..Len(Methods) :
      errors[j] =
        Aggregated([i \in 1..Len(exp_T) |-> SignedDivisor(exp_T[i], Pred(j)[i])])

\* C8 amended: the metrics aggregate |T_exp - T_est| / |T_exp|, the divisor
\* entering by its absolute value.
C8_DivisorIsAbsolute ==
  SummaryDone =>
    \A j \in 1..Len(Methods) :
      errors[j] =
        Aggregated([i \in 1..Len(exp_T) |-> AbsDivisor(exp_T[i], Pred(j)[i])])

C8_Witness ==
  /\ SummaryDone
  /\ \E i \in 1..Len(exp_T) : \E j \in 1..Len(Methods) :
       /\ IsFin(exp_T[i]) /\ exp_T[i].v < 0
       /\ IsFin(Pred(j)[i])
       /\ Positive(errors[j].MIPE)

\* The selected pressure column as line 84 reads it: from the frame that
\* already holds the derived 'Gamma' column.
SelectedPressure == SetColumn(data.val, "Gamma", gamma)[pressure_col]

C10_InputColumnsKept ==
  (pc = "done" /\ raised.kind = "none") =>
    \A c \in DOMAIN data.val :
      c \in DOMAIN edited_data /\ edited_data[c] = data.val[c]

-----------------------------------------------------------------------------
====
